---- MODULE Spec2Model ----
(***************************************************************************)
(* Model of src/api.py: the /premium/audit endpoint (ask_gemini), its two  *)
(* asyncio semaphores, the Playwright capture run in a worker thread       *)
(* (capture_screenshots_and_html, prepare_page, accept_banner) and the     *)
(* HTML extractor (extract_tagged_text).                                   *)
(*                                                                         *)
(* The event loop is single threaded: a coroutine runs without             *)
(* interruption from one suspension point to the next, so each event-loop  *)
(* action below covers the code between two suspension points.  The        *)
(* capture runs in a thread (asyncio.to_thread); each of its blocking      *)
(* Playwright calls is one action and interleaves with the event loop.     *)
(***************************************************************************)
EXTENDS Integers, Sequences, FiniteSets, TLC

\* ------------------------------------------------------------------------
\* Bounds of the model
\* ------------------------------------------------------------------------
NReq == 5

\* ------------------------------------------------------------------------
\* Program constants
\* ------------------------------------------------------------------------
MAX_CONCURRENT_REQUESTS == 4

MAX_PLAYWRIGHT_SESSIONS == 1

Reqs == 1..NReq

VARIABLES
    pc,                    \* position of each request
    request_semaphore,     \* outer gate: [value, waiters, woken]
    playwright_semaphore,  \* inner gate: [value, waiters, woken]
    holds,                 \* permits a request has acquired and not released
    body,                  \* AskRequest: which of banner_1 / banner_2 are set
    browser,               \* engine of each request: "open" or "none"
    exc,                   \* exception raised in the capture thread
    screenshots,           \* list of screenshots of the capture
    dom_lengths,           \* <<initial_length, after_wait_length>> once read
    is_js_site,            \* verdict of the JS site detection
    raw_html,              \* <<markup>> once page.content() was captured
    cleaned_html,          \* <<content>> once extract_tagged_text returned
    dismissed,             \* observation of the last accept_banner call
    log,                   \* capture steps executed so far, in order
    result                 \* how ask_gemini ended

vars == <<pc, request_semaphore, playwright_semaphore, holds, body, browser,
          exc, screenshots, dom_lengths, is_js_site, raw_html, cleaned_html,
          dismissed, log, result>>

gates == <<request_semaphore, playwright_semaphore, holds>>

locals == <<body, browser, exc, screenshots, dom_lengths, is_js_site,
            raw_html, cleaned_html, dismissed, log>>

\* ------------------------------------------------------------------------
\* asyncio.Semaphore (lines 434-435), as CPython 3.11 and later implement
\* it: value is the number of free permits, waiters the queue of requests
\* suspended in acquire(), woken those of them whose future release() has
\* completed (a permit is already taken for them) and that have not resumed.
\* ------------------------------------------------------------------------
Semaphore(n) == [value |-> n, waiters |-> <<>>, woken |-> {}]

\* a semaphore that admits everybody
locked_ignoring_value(s) == FALSE

locked(s) == s.value = 0 \/ Len(s.waiters) > 0

RemoveWaiter(q, r) == SelectSeq(q, LAMBDA x : x # r)

Pending(s) == {i \in 1..Len(s.waiters) : s.waiters[i] \notin s.woken}

\* waking the waiter that queued last
LastPending(s) == CHOOSE i \in Pending(s) : \A j \in Pending(s) : i >= j

FirstPending(s) == CHOOSE i \in Pending(s) : \A j \in Pending(s) : i <= j

\* a release that wakes no waiter
wake_nobody(s) == s

_wake_up_next(s) ==
    IF Pending(s) = {} THEN s
    ELSE [s EXCEPT !.value = @ - 1,
                   !.woken = @ \cup {s.waiters[FirstPending(s)]}]

RECURSIVE wake_while_free(_)
wake_while_free(s) ==
    IF s.value > 0 /\ Pending(s) # {} THEN wake_while_free(_wake_up_next(s))
    ELSE s

\* an acquisition that takes no permit
acquire_fast_free(s) == s

acquire_fast(s) == [s EXCEPT !.value = @ - 1]

acquire_wait(s, r) == [s EXCEPT !.waiters = Append(@, r)]

acquire_resume(s, r) ==
    wake_while_free([s EXCEPT !.waiters = RemoveWaiter(@, r),
                              !.woken = @ \ {r}])

\* a permit that is never given back
release_lost(s) == s

release(s) == _wake_up_next([s EXCEPT !.value = @ + 1])

\* ------------------------------------------------------------------------
\* JS site detection (capture_screenshots_and_html, line 377)
\* ------------------------------------------------------------------------
\* after_wait_length > initial_length * 1.1.  The lengths are integers and
\* the double nearest to 1.1 is above 1.1 by less than 1e-16, so for every
\* length below 2^50 the comparison agrees with 10 * after > 11 * initial.
classify_at_least(initial_length, after_wait_length) ==
    10 * after_wait_length >= 11 * initial_length

classify(initial_length, after_wait_length) ==
    10 * after_wait_length > 11 * initial_length

\* ------------------------------------------------------------------------
\* accept_banner (lines 290-325)
\* ------------------------------------------------------------------------
MaxFrames == 1

NumSelectors == 3

ClickOutcomes == {"clicked", "timeout", "error"}

EvalOutcomes == {"clicked", "no_button", "error"}

SelectorOutcomes == [1..NumSelectors -> ClickOutcomes]

Uniform(o) == [i \in 1..NumSelectors |-> o]

\* What the page does to one accept_banner call: the outcome of the click on
\* each selector of the page, on the selectors of each frame of page.frames
\* (the main frame first; the selectors of one frame fare alike), and of
\* the fallback script.
OverlayEnvs ==
    [page   : SelectorOutcomes,
     frames : UNION {[1..k -> {Uniform(o) : o \in ClickOutcomes}] :
                        k \in 1..MaxFrames},
     eval   : EvalOutcomes]

\* The environments in which every selector of the page behaves alike and
\* the only frame holds nothing to click.
UniformOverlayEnvs ==
    {[page   |-> Uniform(o),
      frames |-> <<Uniform("timeout")>>,
      eval   |-> e] : o \in ClickOutcomes, e \in EvalOutcomes}

RECURSIVE Flatten(_)
Flatten(ss) == IF ss = <<>> THEN <<>> ELSE Head(ss) \o Flatten(Tail(ss))

\* try: locator(selector).first.click(...); return True / except: pass
try_click_uncaught(outcome) ==
    IF outcome = "clicked" THEN "return"
    ELSE IF outcome = "timeout" THEN "pass" ELSE "raise"

try_click(outcome) == IF outcome = "clicked" THEN "return" ELSE "pass"

RECURSIVE click_loop(_)
click_loop(outcomes) ==
    IF outcomes = <<>> THEN "pass"
    ELSE LET x == try_click(Head(outcomes))
         IN  IF x = "pass" THEN click_loop(Tail(outcomes)) ELSE x

\* try: page.evaluate(...); return True / except: return False
try_evaluate(outcome) == outcome # "error"

accept_banner(env) ==
    LET c == click_loop(env.page \o Flatten(env.frames))
    IN  IF c = "return" THEN [ret |-> TRUE, raised |-> FALSE]
        ELSE IF c = "raise" THEN [ret |-> FALSE, raised |-> TRUE]
        ELSE [ret |-> try_evaluate(env.eval), raised |-> FALSE]

\* No element of the page, of a frame or among the scanned buttons matches.
ZeroMatch(env) ==
    /\ \A i \in 1..NumSelectors : env.page[i] # "clicked"
    /\ \A k \in 1..Len(env.frames) :
          \A i \in 1..NumSelectors : env.frames[k][i] # "clicked"
    /\ env.eval # "clicked"

\* ------------------------------------------------------------------------
\* Markup and extract_tagged_text (lines 60-239)
\* ------------------------------------------------------------------------
MaxNodes == 2

MAX_HTML_CHARS == 50000

REMOVE_TAGS_LIGHT ==
    {"noscript", "template", "style", "link",
     "svg", "path", "defs", "symbol", "use",
     "head", "meta", "base", "title",
     "header", "footer", "nav", "aside",
     "form", "input", "textarea", "select",
     "option", "button", "label", "fieldset", "legend",
     "canvas", "video", "audio", "source", "track",
     "iframe", "embed", "object", "param",
     "colgroup", "col", "tbody", "thead", "tfoot",
     "details", "summary", "dialog", "map", "area"}

NON_EXECUTIVE_ATTRS ==
    {"class", "id", "style", "width", "height", "align", "valign", "border",
     "src", "srcset", "sizes", "loading", "decoding", "fetchpriority",
     "poster", "importance", "inert", "blocking",
     "onclick", "onload", "onerror", "onmouseover", "onmouseenter",
     "onmouseleave", "onfocus", "onblur", "onchange", "onsubmit",
     "slot", "is", "key", "ref", "part", "exportparts",
     "ping", "target", "data-track", "data-tracking", "data-testid",
     "tabindex", "contenteditable", "spellcheck", "draggable", "translate"}

\* attr.startswith("data-"), over the attribute names of the model
DataPrefixed == {"data-track", "data-tracking", "data-testid", "data-sku"}

\* str.lower(), over the script types of the model
Lower(t) == IF t = "APPLICATION/LD+JSON" THEN "application/ld+json" ELSE t

\* A node of the document: an element (tag), a text node ("#text"), a
\* whitespace-only text node ("#ws") or a comment ("#comment"); inside is
\* the element that contains it (html, head, body, or an element of the
\* body such as nav); len is the number of characters it serializes to.
Node(tag, type, attrs, inside, len) ==
    [tag |-> tag, type |-> type, attrs |-> attrs, inside |-> inside,
     len |-> len]

Script(type, attrs, inside) == Node("script", type, attrs, inside, 40)

Nodes ==
    {Script("application/ld+json", {"type"}, "body"),
     Script("application/ld+json", {"type"}, "nav"),
     Script("application/ld+json", {"type"}, "head"),
     Script("application/ld+json", {"type", "id"}, "body"),
     Script("APPLICATION/LD+JSON", {"type"}, "body"),
     Script("application/json", {"type"}, "body"),
     Script("text/javascript", {"type"}, "body"),
     Script("", {}, "body"),
     Node("p", "", {"class", "lang", "data-sku"}, "body", MAX_HTML_CHARS),
     Node("nav", "", {}, "body", 11),
     Node("#text", "", {}, "body", 1),
     Node("#text", "", {}, "html", 1),
     Node("#ws", "", {}, "body", 1),
     Node("#comment", "", {}, "body", 8)}

InBody(n) == n.inside \notin {"html", "head"}

\* A document as html.parser builds it: it has a head or not, a body or
\* not, and nodes; a node inside the head or the body needs that element.
Markups ==
    {m \in [head  : BOOLEAN,
            body  : BOOLEAN,
            nodes : UNION {[1..k -> Nodes] : k \in 0..MaxNodes}] :
        \A i \in 1..Len(m.nodes) :
            /\ m.nodes[i].inside = "head" => m.head
            /\ InBody(m.nodes[i]) => m.body}

\* <body></body>, the element that str(body) serializes around its children
BodyTag == Node("body", "", {}, "html", 13)

EmptyString == <<>>

RECURSIVE SumLen(_)
SumLen(ns) == IF ns = <<>> THEN 0 ELSE Head(ns).len + SumLen(Tail(ns))

\* len() of a content value
StrLen(content) == SumLen(content)

\* lines 205-208: decompose the scripts of the body that are not
\* structured data
decompose_scripts(ns) ==
    SelectSeq(ns, LAMBDA n :
        ~(n.tag = "script"
          /\ Lower(n.type) \notin {"application/ld+json",
                                   "application/json"}))

\* lines 210-211: decompose the denylisted elements with all they contain
decompose_light(ns) ==
    SelectSeq(ns, LAMBDA n :
        n.tag \notin REMOVE_TAGS_LIGHT /\ n.inside \notin REMOVE_TAGS_LIGHT)

strip_attrs(n) ==
    [n EXCEPT !.attrs =
        {a \in @ : a \notin NON_EXECUTIVE_ATTRS /\ a \notin DataPrefixed}]

\* lines 60-135
strip_class_and_id(ns) ==
    LET kept == SelectSeq(ns, LAMBDA n : n.tag # "#comment")
    IN  [i \in 1..Len(kept) |-> strip_attrs(kept[i])]

\* lines 139-148
remove_html_whitespace(ns) == SelectSeq(ns, LAMBDA n : n.tag # "#ws")

\* lines 197-239, the statements after exit(): the sanitized form of the
\* markup.  No call reaches them.
sanitized(html) ==
    IF ~html.body THEN EmptyString
    ELSE LET b == SelectSeq(html.nodes, InBody)
         IN  <<BodyTag>> \o
             remove_html_whitespace(
                 strip_class_and_id(decompose_light(decompose_scripts(b))))

Returns(v) == [kind |-> "return", value |-> v]

Raises(e) == [kind |-> "raise", value |-> e]

extract_tagged_text_past_exit(html) ==
    IF ~html.head THEN Returns(EmptyString) ELSE Returns(sanitized(html))

\* lines 186-195: without a head the empty string is returned; with a head
\* print(head) and exit() run, and exit() raises SystemExit.
extract_tagged_text(html) ==
    IF ~html.head THEN Returns(EmptyString) ELSE Raises("SystemExit")

\* ------------------------------------------------------------------------
\* Inputs of the environment
\* ------------------------------------------------------------------------
MaxDomLen == 12

\* AskRequest.banner_1 / banner_2: set or None
Bodies == [banner_1 : BOOLEAN, banner_2 : BOOLEAN]

\* What the requests and the pages of a run can be: the request bodies, the
\* outcomes of a dismissal, the DOM lengths page.content() can have, the
\* markup it can return, and the Playwright calls that can raise.
World(bodies, envs, initials, afters, markups, failing) ==
    [bodies |-> bodies, envs |-> envs, initials |-> initials,
     afters |-> afters, markups |-> markups, failing |-> failing]

\* the Playwright calls of a capture that can raise, by their position
CaptureCalls ==
    {"launch", "d_context", "d_goto", "d_ready", "d_content", "d_detect",
     "d_scroll", "d_raw", "d_shot", "m_context", "m_goto", "m_ready",
     "m_scroll", "m_shot", "close"}

\* a single capture, observed in detail
CaptureWorld ==
    World(Bodies, OverlayEnvs, {0, 1, 10}, 0..MaxDomLen,
          {[head |-> h, body |-> TRUE, nodes |-> ns] :
               h \in BOOLEAN,
               ns \in {<<>>, <<Node("#text", "", {}, "body", 1)>>}}
          \cup {[head |-> h, body |-> FALSE, nodes |-> <<>>] :
                    h \in BOOLEAN},
          CaptureCalls)

\* many concurrent requests with one banner each, on dynamic pages without
\* an overlay whose markup has a body, no head and no other node; the
\* engine launch, the navigations, the desktop readiness wait and the
\* engine close can fail
GovernorWorld ==
    World({[banner_1 |-> TRUE, banner_2 |-> FALSE]},
          {[page |-> Uniform("timeout"), frames |-> <<Uniform("timeout")>>,
            eval |-> "no_button"]},
          {10}, {12},
          {[head |-> FALSE, body |-> TRUE, nodes |-> <<>>]},
          {"launch", "d_goto", "d_ready", "m_goto", "close"})

Viewports == {"desktop", "mobile"}

Lbl(vp, step) == (IF vp = "desktop" THEN "d_" ELSE "m_") \o step

NoDismissal ==
    [called |-> FALSE, zero |-> FALSE, ret |-> FALSE, raised |-> FALSE]

\* ------------------------------------------------------------------------
\* Init: the state after module import, NReq requests about to arrive
\* ------------------------------------------------------------------------
Init ==
    /\ pc = [r \in Reqs |-> "start"]
    /\ request_semaphore = Semaphore(MAX_CONCURRENT_REQUESTS)
    /\ playwright_semaphore = Semaphore(MAX_PLAYWRIGHT_SESSIONS)
    /\ holds = [r \in Reqs |-> {}]
    /\ body = [r \in Reqs |-> [banner_1 |-> FALSE, banner_2 |-> FALSE]]
    /\ browser = [r \in Reqs |-> "none"]
    /\ exc = [r \in Reqs |-> "none"]
    /\ screenshots = [r \in Reqs |-> <<>>]
    /\ dom_lengths = [r \in Reqs |-> <<>>]
    /\ is_js_site = [r \in Reqs |-> FALSE]
    /\ raw_html = [r \in Reqs |-> <<>>]
    /\ cleaned_html = [r \in Reqs |-> <<>>]
    /\ dismissed = [r \in Reqs |-> NoDismissal]
    /\ log = [r \in Reqs |-> <<>>]
    /\ result = [r \in Reqs |-> "none"]

\* ------------------------------------------------------------------------
\* ask_gemini, up to the start of the capture thread (lines 442-452)
\* ------------------------------------------------------------------------
\* await asyncio.to_thread(capture_screenshots_and_html, str(body.url),
\* body.banner_1, body.banner_2): the request body is read here.
to_thread(r, W) ==
    /\ \E b \in W.bodies : body' = [body EXCEPT ![r] = b]
    /\ pc' = [pc EXCEPT ![r] = "launch"]

\* async with playwright_semaphore (line 446), by a request whose permits
\* are h
with_playwright_semaphore(r, h, W) ==
    IF ~locked(playwright_semaphore)
    THEN /\ playwright_semaphore' = acquire_fast(playwright_semaphore)
         /\ holds' = [h EXCEPT ![r] = @ \cup {"inner"}]
         /\ to_thread(r, W)
    ELSE /\ playwright_semaphore' = acquire_wait(playwright_semaphore, r)
         /\ holds' = h
         /\ pc' = [pc EXCEPT ![r] = "wait_inner"]
         /\ body' = body

\* A request arrives: async with request_semaphore (line 443), and when the
\* permit is free, on to line 446 without suspension.  The requests are
\* numbered in the order in which they arrive.
Request(r, W) ==
    /\ pc[r] = "start"
    /\ \A q \in Reqs : q < r => pc[q] # "start"
    /\ IF ~locked(request_semaphore)
       THEN /\ request_semaphore' = acquire_fast(request_semaphore)
            /\ with_playwright_semaphore(
                   r, [holds EXCEPT ![r] = @ \cup {"outer"}], W)
       ELSE /\ request_semaphore' = acquire_wait(request_semaphore, r)
            /\ pc' = [pc EXCEPT ![r] = "wait_outer"]
            /\ UNCHANGED <<playwright_semaphore, holds, body>>
    /\ UNCHANGED <<browser, exc, screenshots, dom_lengths, is_js_site,
                   raw_html, cleaned_html, dismissed, log, result>>

\* A waiter of the outer gate that release() woke up resumes.
OuterAcquired(r, W) ==
    /\ pc[r] = "wait_outer"
    /\ r \in request_semaphore.woken
    /\ request_semaphore' = acquire_resume(request_semaphore, r)
    /\ with_playwright_semaphore(r, [holds EXCEPT ![r] = @ \cup {"outer"}],
                                 W)
    /\ UNCHANGED <<browser, exc, screenshots, dom_lengths, is_js_site,
                   raw_html, cleaned_html, dismissed, log, result>>

\* A waiter of the inner gate that release() woke up resumes.
InnerAcquired(r, W) ==
    /\ pc[r] = "wait_inner"
    /\ r \in playwright_semaphore.woken
    /\ playwright_semaphore' = acquire_resume(playwright_semaphore, r)
    /\ holds' = [holds EXCEPT ![r] = @ \cup {"inner"}]
    /\ to_thread(r, W)
    /\ UNCHANGED <<request_semaphore, browser, exc, screenshots,
                   dom_lengths, is_js_site, raw_html, cleaned_html,
                   dismissed, log, result>>

\* ------------------------------------------------------------------------
\* capture_screenshots_and_html, in the worker thread (lines 347-423)
\* ------------------------------------------------------------------------
Goes(r, to) == pc' = [pc EXCEPT ![r] = to]

Logs(r, step) == log' = [log EXCEPT ![r] = Append(@, step)]

\* A Playwright call raises inside the with block: control passes to the
\* exit of the with statement of line 350 with the error pending.
Throws(r) ==
    /\ pc' = [pc EXCEPT ![r] = "with_exit"]
    /\ exc' = [exc EXCEPT ![r] = "Error"]

\* whether the call at a position returns (TRUE) or raises (FALSE)
Outcomes(W, at) == IF at \in W.failing THEN BOOLEAN ELSE {TRUE}

\* a Playwright call that returns nothing the capture keeps
Call(r, from, to, W) ==
    /\ pc[r] = from
    /\ Logs(r, from)
    /\ \E ok \in Outcomes(W, from) :
          IF ok THEN Goes(r, to) /\ exc' = exc ELSE Throws(r)

\* line 351: browser = p.chromium.launch(headless=True)
Launch(r, W) ==
    /\ pc[r] = "launch"
    /\ Logs(r, "launch")
    /\ \E ok \in Outcomes(W, "launch") :
          IF ok THEN /\ browser' = [browser EXCEPT ![r] = "open"]
                     /\ Goes(r, "d_context")
                     /\ exc' = exc
          ELSE Throws(r) /\ browser' = browser
    /\ UNCHANGED <<gates, body, screenshots, dom_lengths, is_js_site,
                   raw_html, cleaned_html, dismissed, result>>

\* lines 353-362 and 396-408: browser.new_context(...), context.new_page()
NewContext(r, vp, W) ==
    /\ Call(r, Lbl(vp, "context"), Lbl(vp, "goto"), W)
    /\ UNCHANGED <<gates, body, browser, screenshots, dom_lengths,
                   is_js_site, raw_html, cleaned_html, dismissed, result>>

\* prepare_page, line 332: page.goto(url, ..., timeout=60000)
Goto(r, vp, W) ==
    /\ Call(r, Lbl(vp, "goto"), Lbl(vp, "ready"), W)
    /\ UNCHANGED <<gates, body, browser, screenshots, dom_lengths,
                   is_js_site, raw_html, cleaned_html, dismissed, result>>

\* prepare_page, line 333: page.wait_for_selector("body", timeout=10000)
WaitForBody(r, vp, W) ==
    /\ Call(r, Lbl(vp, "ready"), Lbl(vp, "banner1"), W)
    /\ UNCHANGED <<gates, body, browser, screenshots, dom_lengths,
                   is_js_site, raw_html, cleaned_html, dismissed, result>>

\* a dismissal pass for every banner slot, given or not
supplied_or_builtin(banner) == TRUE

\* if banner_1: / if banner_2: the pass runs for a banner that is not None
supplied(banner) == banner

\* if banner: accept_banner(page, banner); time.sleep(0.5), logged as step
Dismiss(r, from, to, step, banner, envs) ==
    /\ pc[r] = from
    /\ IF supplied(banner)
       THEN /\ Logs(r, step)
            /\ \E env \in envs :
                  LET res == accept_banner(env)
                  IN  /\ dismissed' = [dismissed EXCEPT ![r] =
                             [called |-> TRUE, zero |-> ZeroMatch(env),
                              ret |-> res.ret, raised |-> res.raised]]
                      /\ IF res.raised THEN Throws(r)
                         ELSE Goes(r, to) /\ exc' = exc
       ELSE Goes(r, to) /\ UNCHANGED <<log, dismissed, exc>>

\* banner k of a request body
BannerOf(b, k) == IF k = 1 THEN b.banner_1 ELSE b.banner_2

\* the dismissal of banner k in the log
BannerStep(vp, k) == Lbl(vp, IF k = 1 THEN "banner1" ELSE "banner2")

\* banner_2 handled in the first pass and banner_1 in the second
pass_banner_swapped(k) == 3 - k

\* the banner that the k-th pass of prepare_page handles: banner_1 at lines
\* 335-337, then banner_2 at lines 339-341
pass_banner(k) == k

\* prepare_page, lines 335-337
Banner1(r, vp, W) ==
    /\ Dismiss(r, Lbl(vp, "banner1"), Lbl(vp, "banner2"),
               BannerStep(vp, pass_banner(1)),
               BannerOf(body[r], pass_banner(1)), W.envs)
    /\ UNCHANGED <<gates, body, browser, screenshots, dom_lengths,
                   is_js_site, raw_html, cleaned_html, result>>

\* prepare_page, lines 339-341; then back in the capture at line 368
\* (desktop) or line 411 (mobile)
Banner2(r, vp, W) ==
    /\ Dismiss(r, Lbl(vp, "banner2"),
               IF vp = "desktop" THEN "d_content" ELSE "m_scroll",
               BannerStep(vp, pass_banner(2)),
               BannerOf(body[r], pass_banner(2)), W.envs)
    /\ UNCHANGED <<gates, body, browser, screenshots, dom_lengths,
                   is_js_site, raw_html, cleaned_html, result>>

\* lines 368-369: html_initial = page.content(); initial_length = len(...)
ContentInitial(r, W) ==
    /\ pc[r] = "d_content"
    /\ Logs(r, "d_content")
    /\ \E ok \in Outcomes(W, "d_content") :
          IF ok
          THEN /\ \E i \in W.initials :
                     dom_lengths' = [dom_lengths EXCEPT ![r] = <<i>>]
               /\ Goes(r, "d_detect")
               /\ exc' = exc
          ELSE Throws(r) /\ dom_lengths' = dom_lengths
    /\ UNCHANGED <<gates, body, browser, screenshots, is_js_site, raw_html,
                   cleaned_html, dismissed, result>>

\* lines 372-377: wait 1500 ms, read the DOM again, compare the lengths
Detect(r, W) ==
    /\ pc[r] = "d_detect"
    /\ Logs(r, "d_detect")
    /\ \E ok \in Outcomes(W, "d_detect") :
          IF ok
          THEN /\ \E a \in W.afters :
                     /\ dom_lengths' =
                            [dom_lengths EXCEPT ![r] = Append(@, a)]
                     /\ is_js_site' = [is_js_site EXCEPT ![r] =
                            classify(dom_lengths[r][1], a)]
               /\ Goes(r, "d_scroll")
               /\ exc' = exc
          ELSE Throws(r) /\ UNCHANGED <<dom_lengths, is_js_site>>
    /\ UNCHANGED <<gates, body, browser, screenshots, raw_html,
                   cleaned_html, dismissed, result>>

\* a mobile pass that scrolls whatever the desktop pass found
remediates_always_on_mobile(vp, js) == vp = "mobile" \/ js

\* lines 382 and 411: if is_js_site: in both passes the flag of line 377
remediates(vp, js) == js

\* lines 382-385 and 411-414: if is_js_site: mouse.wheel(...) and waits
Scroll(r, vp, W) ==
    /\ pc[r] = Lbl(vp, "scroll")
    /\ LET to == IF vp = "desktop" THEN "d_raw" ELSE "m_shot"
       IN  IF remediates(vp, is_js_site[r])
           THEN /\ Logs(r, Lbl(vp, "scroll"))
                /\ \E ok \in Outcomes(W, Lbl(vp, "scroll")) :
                      IF ok THEN Goes(r, to) /\ exc' = exc ELSE Throws(r)
           ELSE Goes(r, to) /\ UNCHANGED <<log, exc>>
    /\ UNCHANGED <<gates, body, browser, screenshots, dom_lengths,
                   is_js_site, raw_html, cleaned_html, dismissed, result>>

\* line 388: raw_html = page.content()
RawHtml(r, W) ==
    /\ pc[r] = "d_raw"
    /\ Logs(r, "d_raw")
    /\ \E ok \in Outcomes(W, "d_raw") :
          IF ok
          THEN /\ \E m \in W.markups :
                     raw_html' = [raw_html EXCEPT ![r] = <<m>>]
               /\ Goes(r, "d_shot")
               /\ exc' = exc
          ELSE Throws(r) /\ raw_html' = raw_html
    /\ UNCHANGED <<gates, body, browser, screenshots, dom_lengths,
                   is_js_site, cleaned_html, dismissed, result>>

\* what follows a screenshot: the mobile pass (line 396) after the desktop
\* one, browser.close() (line 418) after the mobile one
after_screenshot_desktop_only(vp) == "close"

after_screenshot(vp) == IF vp = "desktop" THEN "m_context" ELSE "close"

\* lines 391 and 416: screenshots.append(page.screenshot(full_page=True))
Screenshot(r, vp, W) ==
    /\ pc[r] = Lbl(vp, "shot")
    /\ Logs(r, Lbl(vp, "shot"))
    /\ \E ok \in Outcomes(W, Lbl(vp, "shot")) :
          IF ok
          THEN /\ screenshots' = [screenshots EXCEPT ![r] = Append(@, vp)]
               /\ Goes(r, after_screenshot(vp))
               /\ exc' = exc
          ELSE Throws(r) /\ screenshots' = screenshots
    /\ UNCHANGED <<gates, body, browser, dom_lengths, is_js_site, raw_html,
                   cleaned_html, dismissed, result>>

\* line 418: browser.close()
Close(r, W) ==
    /\ pc[r] = "close"
    /\ Logs(r, "close")
    /\ \E ok \in Outcomes(W, "close") :
          IF ok THEN /\ browser' = [browser EXCEPT ![r] = "none"]
                     /\ Goes(r, "with_exit")
                     /\ exc' = exc
          ELSE Throws(r) /\ browser' = browser
    /\ UNCHANGED <<gates, body, screenshots, dom_lengths, is_js_site,
                   raw_html, cleaned_html, dismissed, result>>

\* The engine of a capture after the Playwright driver has stopped.
stopped_leaving_engine(b) == b

stopped(b) == "none"

\* line 350, leaving the with block: sync_playwright().__exit__ stops the
\* driver, which ends every browser it launched; a pending error is raised
\* to the caller of the capture after that.
WithExit(r) ==
    /\ pc[r] = "with_exit"
    /\ Logs(r, "with_exit")
    /\ browser' = [browser EXCEPT ![r] = stopped(@)]
    /\ Goes(r, IF exc[r] = "none" THEN "extract" ELSE "thread_done")
    /\ UNCHANGED <<gates, body, exc, screenshots, dom_lengths, is_js_site,
                   raw_html, cleaned_html, dismissed, result>>

\* lines 420-423: cleaned_html = extract_tagged_text(raw_html); return
Extract(r) ==
    /\ pc[r] = "extract"
    /\ Logs(r, "extract")
    /\ LET x == extract_tagged_text(raw_html[r][1])
       IN  IF x.kind = "return"
           THEN /\ cleaned_html' = [cleaned_html EXCEPT ![r] = <<x.value>>]
                /\ exc' = exc
           ELSE /\ exc' = [exc EXCEPT ![r] = x.value]
                /\ cleaned_html' = cleaned_html
    /\ Goes(r, "thread_done")
    /\ UNCHANGED <<gates, body, browser, screenshots, dom_lengths,
                   is_js_site, raw_html, dismissed, result>>

\* ------------------------------------------------------------------------
\* ask_gemini, after the capture thread has finished (lines 446-545)
\* ------------------------------------------------------------------------
\* The request leaves async with request_semaphore: the outer permit is
\* released and the locals of the request are gone.
Ends(r, res) ==
    /\ request_semaphore' = release(request_semaphore)
    /\ holds' = [holds EXCEPT ![r] = {}]
    /\ pc' = [pc EXCEPT ![r] = "done"]
    /\ result' = [result EXCEPT ![r] = res]
    /\ body' = [body EXCEPT ![r] = [banner_1 |-> FALSE, banner_2 |-> FALSE]]
    /\ exc' = [exc EXCEPT ![r] = "none"]
    /\ screenshots' = [screenshots EXCEPT ![r] = <<>>]
    /\ dom_lengths' = [dom_lengths EXCEPT ![r] = <<>>]
    /\ is_js_site' = [is_js_site EXCEPT ![r] = FALSE]
    /\ raw_html' = [raw_html EXCEPT ![r] = <<>>]
    /\ cleaned_html' = [cleaned_html EXCEPT ![r] = <<>>]
    /\ dismissed' = [dismissed EXCEPT ![r] = NoDismissal]
    /\ log' = [log EXCEPT ![r] = <<>>]

\* a handler that answers a failed capture with a response
surfaced_as_response(e) == "response"

\* lines 544-545: except Exception as e: raise HTTPException(500, str(e));
\* SystemExit is no Exception and leaves ask_gemini unchanged
surfaced(e) == IF e = "Error" THEN "HTTPException" ELSE "SystemExit"

\* The analysis calls inside async with playwright_semaphore: a capture that
\* returned keeps the inner permit.
CaptureDone_inside_inner_gate(r) ==
    /\ pc[r] = "thread_done"
    /\ IF exc[r] = "none"
       THEN /\ pc' = [pc EXCEPT ![r] = "desktop_call"]
            /\ dom_lengths' = [dom_lengths EXCEPT ![r] = <<>>]
            /\ is_js_site' = [is_js_site EXCEPT ![r] = FALSE]
            /\ raw_html' = [raw_html EXCEPT ![r] = <<>>]
            /\ dismissed' = [dismissed EXCEPT ![r] = NoDismissal]
            /\ log' = [log EXCEPT ![r] = <<>>]
            /\ UNCHANGED <<gates, body, exc, screenshots, cleaned_html,
                           result>>
       ELSE /\ playwright_semaphore' = release(playwright_semaphore)
            /\ Ends(r, surfaced(exc[r]))
    /\ UNCHANGED browser

\* The await of line 447 completes with the result or the exception of the
\* thread.  Leaving async with playwright_semaphore releases the inner
\* permit.  An Exception is turned into HTTPException(500) at lines
\* 544-545; SystemExit is not an Exception and leaves ask_gemini as it is.
\* With a result, lines 454-485 run up to the first analysis call; of the
\* capture only the returned screenshots and cleaned_html are left.
CaptureDone(r) ==
    /\ pc[r] = "thread_done"
    /\ playwright_semaphore' = release(playwright_semaphore)
    /\ IF exc[r] = "none"
       THEN /\ pc' = [pc EXCEPT ![r] = "desktop_call"]
            /\ holds' = [holds EXCEPT ![r] = @ \ {"inner"}]
            /\ dom_lengths' = [dom_lengths EXCEPT ![r] = <<>>]
            /\ is_js_site' = [is_js_site EXCEPT ![r] = FALSE]
            /\ raw_html' = [raw_html EXCEPT ![r] = <<>>]
            /\ dismissed' = [dismissed EXCEPT ![r] = NoDismissal]
            /\ log' = [log EXCEPT ![r] = <<>>]
            /\ UNCHANGED <<request_semaphore, body, exc, screenshots,
                           cleaned_html, result>>
       ELSE Ends(r, surfaced(exc[r]))
    /\ UNCHANGED browser

\* a handler that returns after the third call
AnalysisCalls_without_geo == <<"desktop_call", "mobile_call", "aeo_call">>

\* lines 485, 499, 513, 526: the four awaited calls, in this order
AnalysisCalls == <<"desktop_call", "mobile_call", "aeo_call", "geo_call">>

\* lines 485-545: await client.aio.models.generate_content(...) returns or
\* raises; after the fourth call the response is returned (line 539)
AnalysisCall(r) ==
    /\ \E k \in 1..Len(AnalysisCalls) :
          /\ pc[r] = AnalysisCalls[k]
          /\ \E ok \in BOOLEAN :
                IF ~ok THEN Ends(r, "HTTPException")
                ELSE IF k = Len(AnalysisCalls) THEN Ends(r, "response")
                ELSE /\ pc' = [pc EXCEPT ![r] = AnalysisCalls[k + 1]]
                     /\ UNCHANGED <<request_semaphore, holds, body, exc,
                                    screenshots, dom_lengths, is_js_site,
                                    raw_html, cleaned_html, dismissed, log,
                                    result>>
    /\ UNCHANGED <<playwright_semaphore, browser>>

\* ------------------------------------------------------------------------
\* Specifications
\* ------------------------------------------------------------------------
\* The steps of one request whose pages behave as W allows.
Step(r, W) ==
    \/ Request(r, W)
    \/ Launch(r, W)
    \/ \E vp \in Viewports :
          \/ NewContext(r, vp, W)
          \/ Goto(r, vp, W)
          \/ WaitForBody(r, vp, W)
          \/ Banner1(r, vp, W)
          \/ Banner2(r, vp, W)
          \/ Scroll(r, vp, W)
          \/ Screenshot(r, vp, W)
    \/ ContentInitial(r, W)
    \/ Detect(r, W)
    \/ RawHtml(r, W)
    \/ Close(r, W)
    \/ WithExit(r)
    \/ Extract(r)
    \/ CaptureDone(r)
    \/ AnalysisCall(r)

\* NReq concurrent requests
Next ==
    \E r \in Reqs :
        \/ Step(r, GovernorWorld)
        \/ OuterAcquired(r, GovernorWorld)
        \/ InnerAcquired(r, GovernorWorld)

Spec == Init /\ [][Next]_vars

\* The steps of request r among NReq concurrent ones
RequestNext(r) ==
    \/ Step(r, GovernorWorld)
    \/ OuterAcquired(r, GovernorWorld)
    \/ InnerAcquired(r, GovernorWorld)

\* Fair scheduling: the event loop runs every coroutine that is ready and
\* the worker thread of a capture goes on running; every Playwright call and
\* every analysis call ends, by returning or by raising.
SpecFair == Spec /\ \A r \in Reqs : WF_vars(RequestNext(r))

\* One request alone, on every page of CaptureWorld
NextCapture == Step(1, CaptureWorld)

SpecCapture == Init /\ [][NextCapture]_vars

\* The extractor on every markup of Markups: request 1, alone, has captured
\* a static page without banners and is about to run line 420.
StaticCaptureLog ==
    <<"launch", "d_context", "d_goto", "d_ready", "d_content", "d_detect",
      "d_raw", "d_shot", "m_context", "m_goto", "m_ready", "m_shot",
      "close", "with_exit">>

InitExtract ==
    /\ pc = [r \in Reqs |-> IF r = 1 THEN "extract" ELSE "start"]
    /\ request_semaphore =
           acquire_fast(Semaphore(MAX_CONCURRENT_REQUESTS))
    /\ playwright_semaphore =
           acquire_fast(Semaphore(MAX_PLAYWRIGHT_SESSIONS))
    /\ holds = [r \in Reqs |-> IF r = 1 THEN {"outer", "inner"} ELSE {}]
    /\ body = [r \in Reqs |-> [banner_1 |-> FALSE, banner_2 |-> FALSE]]
    /\ browser = [r \in Reqs |-> "none"]
    /\ exc = [r \in Reqs |-> "none"]
    /\ screenshots =
           [r \in Reqs |-> IF r = 1 THEN <<"desktop", "mobile">> ELSE <<>>]
    /\ dom_lengths = [r \in Reqs |-> IF r = 1 THEN <<10, 10>> ELSE <<>>]
    /\ is_js_site = [r \in Reqs |-> FALSE]
    /\ \E m \in Markups :
          raw_html = [r \in Reqs |-> IF r = 1 THEN <<m>> ELSE <<>>]
    /\ cleaned_html = [r \in Reqs |-> <<>>]
    /\ dismissed = [r \in Reqs |-> NoDismissal]
    /\ log = [r \in Reqs |-> IF r = 1 THEN StaticCaptureLog ELSE <<>>]
    /\ result = [r \in Reqs |-> "none"]

NextExtract == Extract(1) \/ CaptureDone(1) \/ AnalysisCall(1)

SpecExtract == InitExtract /\ [][NextExtract]_vars

\* ------------------------------------------------------------------------
\* Properties
\* ------------------------------------------------------------------------
InAnalysis(r) == \E k \in 1..Len(AnalysisCalls) : pc[r] = AnalysisCalls[k]

\* the capture of r has ended: its thread has left the with block
CaptureEnded(r) ==
    pc[r] \in {"extract", "thread_done", "done"} \/ InAnalysis(r)

\* the capture of r has returned its screenshots and cleaned_html
CaptureReturned(r) ==
    (pc[r] = "thread_done" /\ exc[r] = "none") \/ InAnalysis(r)

\* extract_tagged_text has run on the markup of r and the thread has ended
Extracted(r) ==
    /\ pc[r] = "thread_done"
    /\ raw_html[r] # <<>>
    /\ \E i \in 1..Len(log[r]) : log[r][i] = "extract"

Holders(gate) == {r \in Reqs : gate \in holds[r]}

InLog(r, step) == \E i \in 1..Len(log[r]) : log[r][i] = step

\* every occurrence of step b in the log of r has step a before it
Precedes(r, a, b) ==
    \A j \in 1..Len(log[r]) :
        log[r][j] = b => \E i \in 1..(j - 1) : log[r][i] = a

MobileSteps ==
    {"m_context", "m_goto", "m_ready", "m_banner1", "m_banner2",
     "m_scroll", "m_shot"}

DesktopSteps ==
    {"d_context", "d_goto", "d_ready", "d_banner1", "d_banner2",
     "d_content", "d_detect", "d_scroll", "d_raw", "d_shot"}

\* C1: with an inner gate of 1 permit and an outer gate of 4, at most one
\* browser engine is open (launched and not torn down) in every reachable
\* state, whatever the number of requests and their interleaving.
C1_AtMostOneEngineOpen ==
    /\ MAX_PLAYWRIGHT_SESSIONS = 1
    /\ MAX_CONCURRENT_REQUESTS = 4
    /\ Cardinality({r \in Reqs : browser[r] = "open"}) <= 1

\* four requests hold the outer gate, one of them has its engine open, two
\* wait for the inner gate and one waits for the outer gate
C1_Witness ==
    /\ Cardinality(Holders("outer")) = 4
    /\ \E r \in Reqs : browser[r] = "open"
    /\ Cardinality({r \in Reqs : pc[r] = "wait_inner"}) >= 2
    /\ \E r \in Reqs : pc[r] = "wait_outer"

\* C2: on every exit path of the capture the engine is torn down before the
\* capture ends: no capture has ended (returned, or raised to its caller)
\* with its engine still open.
C2_EngineTornDownOnEveryExit ==
    \A r \in Reqs : CaptureEnded(r) => browser[r] # "open"

\* a capture that failed at the mobile navigation, after the launch and the
\* desktop pass, has raised to its caller
C2_Witness ==
    \E r \in Reqs :
        /\ pc[r] = "thread_done"
        /\ exc[r] = "Error"
        /\ InLog(r, "m_goto")
        /\ ~InLog(r, "m_ready")
        /\ browser[r] = "none"

\* C3: a request holds no inner permit once its capture is over and no
\* permit at all once it has ended; the permits of each gate are conserved,
\* and when all requests have ended both gates are back at 1 and 4 with
\* nobody waiting.
C3_GatesReturned ==
    /\ \A r \in Reqs :
          /\ (InAnalysis(r) \/ pc[r] = "done") => "inner" \notin holds[r]
          /\ pc[r] = "done" => holds[r] = {}
    /\ playwright_semaphore.value + Cardinality(Holders("inner"))
          + Cardinality(playwright_semaphore.woken) = MAX_PLAYWRIGHT_SESSIONS
    /\ request_semaphore.value + Cardinality(Holders("outer"))
          + Cardinality(request_semaphore.woken) = MAX_CONCURRENT_REQUESTS
    /\ (\A r \in Reqs : pc[r] = "done") =>
          /\ playwright_semaphore = Semaphore(1)
          /\ request_semaphore = Semaphore(4)

\* all requests have ended, some with a failure and some with a response
C3_Witness ==
    /\ \A r \in Reqs : pc[r] = "done"
    /\ \E r \in Reqs : result[r] = "HTTPException"
    /\ \E r \in Reqs : result[r] = "response"
    /\ playwright_semaphore.value = 1
    /\ request_semaphore.value = 4

\* C4: the screenshot list is empty, the desktop screenshot, or the desktop
\* screenshot followed by the mobile one; a capture that returned has both;
\* and no desktop step of a capture runs after a mobile step of it.
C4_DesktopThenMobile ==
    \A r \in Reqs :
        /\ screenshots[r] \in {<<>>, <<"desktop">>, <<"desktop", "mobile">>}
        /\ CaptureReturned(r) => screenshots[r] = <<"desktop", "mobile">>
        /\ \A i, j \in 1..Len(log[r]) :
              (i < j /\ log[r][i] \in MobileSteps)
                  => log[r][j] \notin DesktopSteps

\* a capture has returned two screenshots to ask_gemini
C4_Witness ==
    \E r \in Reqs :
        /\ pc[r] = "desktop_call"
        /\ screenshots[r] = <<"desktop", "mobile">>

\* C5: the page is classified dynamic exactly when the DOM length after the
\* wait exceeds the initial one by more than 10% (10 * after > 11 *
\* initial); when dynamic, the desktop scroll runs before the final DOM
\* capture and the desktop screenshot; a scroll step is logged on either
\* viewport only for a page classified dynamic.
C5_DynamicIffGrowthAboveTenPercent ==
    \A r \in Reqs :
        /\ Len(dom_lengths[r]) = 2 =>
              (is_js_site[r] <=>
                   10 * dom_lengths[r][2] > 11 * dom_lengths[r][1])
        /\ is_js_site[r] =>
              /\ Precedes(r, "d_scroll", "d_raw")
              /\ Precedes(r, "d_scroll", "d_shot")
        /\ (InLog(r, "d_scroll") \/ InLog(r, "m_scroll")) => is_js_site[r]

\* a page that grew from 10 to 12 characters was scrolled and then
\* screenshot on the desktop viewport
C5_Witness ==
    \E r \in Reqs :
        /\ dom_lengths[r] = <<10, 12>>
        /\ is_js_site[r]
        /\ InLog(r, "d_scroll")
        /\ InLog(r, "d_shot")

\* C6: accept_banner never raises, and on a page where no element matches
\* the banner text (on the page, in a frame, among the scanned buttons) it
\* returns false.
C6_DismissalNeverRaisesAndMissIsFalse ==
    \A r \in Reqs :
        dismissed[r].called =>
            /\ ~dismissed[r].raised
            /\ dismissed[r].zero => ~dismissed[r].ret

HasNodeInBody(m) == \E i \in 1..Len(m.nodes) : InBody(m.nodes[i])

C8_StaticPageYieldsContent ==
    \A r \in Reqs :
        (/\ Extracted(r)
         /\ Len(dom_lengths[r]) = 2
         /\ ~is_js_site[r]
         /\ raw_html[r][1].head
         /\ raw_html[r][1].body
         /\ HasNodeInBody(raw_html[r][1])) =>
            /\ exc[r] = "none"
            /\ cleaned_html[r] # <<>>
            /\ StrLen(cleaned_html[r][1]) > 0

IsScriptOfType(n, types) == n.tag = "script" /\ Lower(n.type) \in types

\* C9: every application/ld+json script of the input markup is in the
\* output of the extractor unchanged, and the output holds no script of a
\* type other than application/ld+json and application/json.
C9_StructuredDataSurvives ==
    \A r \in Reqs :
        Extracted(r) =>
            LET m == raw_html[r][1]
            IN  /\ \A i \in 1..Len(m.nodes) :
                      IsScriptOfType(m.nodes[i], {"application/ld+json"}) =>
                          /\ cleaned_html[r] # <<>>
                          /\ \E j \in 1..Len(cleaned_html[r][1]) :
                                 cleaned_html[r][1][j] = m.nodes[i]
                /\ cleaned_html[r] # <<>> =>
                      \A j \in 1..Len(cleaned_html[r][1]) :
                          cleaned_html[r][1][j].tag = "script" =>
                              IsScriptOfType(cleaned_html[r][1][j],
                                  {"application/ld+json",
                                   "application/json"})

\* C10: for markup whose sanitized form is longer than MAX_HTML_CHARS the
\* extractor returns content, truncated to at most MAX_HTML_CHARS.
C10_ContentWithinBudget ==
    \A r \in Reqs :
        (Extracted(r) /\ StrLen(sanitized(raw_html[r][1])) > MAX_HTML_CHARS)
            => /\ cleaned_html[r] # <<>>
               /\ StrLen(cleaned_html[r][1]) <= MAX_HTML_CHARS

\* The content the extractor returned, put back into a document: the
\* children of its body element inside <html><body>...</body></html>, with
\* or without an (empty) head element.
Wrapped(content, with_head) ==
    [head |-> with_head, body |-> TRUE,
     nodes |-> SelectSeq(content, LAMBDA n : n.tag # "body")]

\* C11: for every markup on which the extractor returns content, the
\* extractor run again on that content wrapped as a minimal document (with
\* or without a head element) returns the same content.
C11_SanitizationIdempotent ==
    \A r \in Reqs :
        (Extracted(r) /\ cleaned_html[r] # <<>>) =>
            \A with_head \in BOOLEAN :
                LET again == extract_tagged_text(
                                 Wrapped(cleaned_html[r][1], with_head))
                IN  /\ again.kind = "return"
                    /\ again.value = cleaned_html[r][1]

\* r is inside the end-to-end operation: past async with request_semaphore
InOperation(r) == pc[r] \notin {"start", "wait_outer", "done"}

\* r is inside the capture: past async with playwright_semaphore and not
\* yet out of it
InCapture(r) == InOperation(r) /\ pc[r] # "wait_inner" /\ ~InAnalysis(r)

\* C12: in every reachable state at most MAX_CONCURRENT_REQUESTS (4)
\* requests are inside the end-to-end operation, holding the outer gate, at
\* most MAX_PLAYWRIGHT_SESSIONS (1) is inside the capture, holding the inner
\* gate, and every holder of the inner gate holds the outer gate, so that
\* the inner holders are never more than the outer ones.
C12_GateOccupancy ==
    /\ MAX_CONCURRENT_REQUESTS = 4
    /\ MAX_PLAYWRIGHT_SESSIONS = 1
    /\ Cardinality({r \in Reqs : InOperation(r)}) <= MAX_CONCURRENT_REQUESTS
    /\ Cardinality({r \in Reqs : InCapture(r)}) <= MAX_PLAYWRIGHT_SESSIONS
    /\ Cardinality(Holders("outer")) <= MAX_CONCURRENT_REQUESTS
    /\ Cardinality(Holders("inner")) <= MAX_PLAYWRIGHT_SESSIONS
    /\ Holders("inner") \subseteq Holders("outer")
    /\ Cardinality(Holders("inner")) <= Cardinality(Holders("outer"))

\* both gates are full and requests wait on each of them
C12_Witness ==
    /\ Cardinality(Holders("outer")) = MAX_CONCURRENT_REQUESTS
    /\ Cardinality(Holders("inner")) = MAX_PLAYWRIGHT_SESSIONS
    /\ Cardinality({r \in Reqs : InCapture(r)}) = 1
    /\ Len(playwright_semaphore.waiters) = MAX_CONCURRENT_REQUESTS - 1
    /\ Len(request_semaphore.waiters) >= 1

\* the requests that started waiting on semaphore s before r did
WaitingBefore(s, r) ==
    {s.waiters[i] : i \in {j \in 1..Len(s.waiters) :
                              \E k \in (j + 1)..Len(s.waiters) :
                                  s.waiters[k] = r}}

Waiting(s) == {s.waiters[i] : i \in 1..Len(s.waiters)}

\* Request r comes to the gate whose semaphore goes from s to t: it gets the
\* permit, with nobody waiting, or it joins the end of the queue.
ComesToGate(gate, s, t, r, wait_pc) ==
    \/ gate \in holds'[r] /\ Waiting(s) = {}
    \/ /\ pc'[r] = wait_pc
       /\ gate \notin holds'[r]
       /\ t.waiters = Append(s.waiters, r)

\* One step of the queue of the gate whose semaphore goes from s to t.
QueueKeepsOrder(gate, s, t) ==
    \A r \in Reqs :
        \* a request leaves the queue only with the permit
        /\ (r \in Waiting(s) /\ r \notin Waiting(t)) =>
               /\ gate \in holds'[r]
               /\ r \in s.woken
               /\ WaitingBefore(s, r) \subseteq s.woken
        \* the permit that a release hands over goes to the request that
        \* has waited longest among those without one
        /\ (r \in t.woken /\ r \notin s.woken) =>
               /\ r \in Waiting(s)
               /\ WaitingBefore(s, r) \subseteq s.woken
        \* the queue keeps its order
        /\ \A q \in Waiting(t) :
               (r \in Waiting(t) /\ q \in Waiting(s)
                  /\ r \in WaitingBefore(s, q)) => r \in WaitingBefore(t, q)

NoBanners == [banner_1 |-> FALSE, banner_2 |-> FALSE]

\* the step that the log of r holds right after each occurrence of step
NextInLog(r, step) ==
    {log[r][i + 1] : i \in {j \in 1..(Len(log[r]) - 1) : log[r][j] = step}}

\* C14, as claimed: the capture of a request without banners runs two
\* dismissal passes in each viewport before the screenshot of that viewport.
C14_DefaultDismissalPasses ==
    \A r \in Reqs : \A vp \in Viewports :
        (body[r] = NoBanners /\ InLog(r, Lbl(vp, "shot"))) =>
            /\ InLog(r, Lbl(vp, "banner1"))
            /\ InLog(r, Lbl(vp, "banner2"))
            /\ Precedes(r, Lbl(vp, "banner1"), Lbl(vp, "shot"))
            /\ Precedes(r, Lbl(vp, "banner2"), Lbl(vp, "shot"))

\* C14, amended: the capture of a request without banners runs no dismissal
\* pass at all: after the readiness wait of a viewport it goes straight on
\* to the reading of the DOM (desktop) or to the scroll or the screenshot
\* (mobile), unless the readiness wait failed.
C14_NoBannerNoDismissal ==
    \A r \in Reqs :
        body[r] = NoBanners =>
            /\ ~dismissed[r].called
            /\ \A vp \in Viewports :
                   /\ ~InLog(r, Lbl(vp, "banner1"))
                   /\ ~InLog(r, Lbl(vp, "banner2"))
            /\ NextInLog(r, "d_ready") \subseteq {"d_content", "with_exit"}
            /\ NextInLog(r, "m_ready") \subseteq
                   {"m_scroll", "m_shot", "with_exit"}

\* a request without banners has taken both screenshots
C14_Witness ==
    \E r \in Reqs :
        /\ body[r] = NoBanners
        /\ InLog(r, "d_shot")
        /\ InLog(r, "m_shot")
        /\ Len(screenshots[r]) = 2
        /\ ~dismissed[r].called

\* the permits of a semaphore of n permits are free, handed to a waiter
\* that has not resumed yet, or held
PermitsAccounted(s, n, gate) ==
    s.value + Cardinality(s.woken) + Cardinality(Holders(gate)) = n

\* C15: a request takes the outer gate before the inner one, holds the inner
\* gate while its capture runs, from before the launch of the engine until
\* after its teardown, is out of the inner gate before its first analysis
\* call, and gives the outer gate back only when the whole operation has
\* ended; it never holds the inner gate without the outer one and never
\* runs an analysis call while it holds the inner gate.
C15_GateOrder ==
    /\ PermitsAccounted(playwright_semaphore, MAX_PLAYWRIGHT_SESSIONS,
                        "inner")
    /\ PermitsAccounted(request_semaphore, MAX_CONCURRENT_REQUESTS, "outer")
    /\ \A r \in Reqs :
          \* the outer gate is held during the whole operation and the
          \* inner one, inside it, during the capture
          /\ ("outer" \in holds[r]) <=> InOperation(r)
          /\ ("inner" \in holds[r]) <=> InCapture(r)
          /\ ("inner" \in holds[r]) => ("outer" \in holds[r])
          \* the engine is launched after the inner gate is taken and torn
          \* down before it is given back
          /\ (browser[r] = "open") =>
                 ("inner" \in holds[r] /\ pc[r] \notin {"launch",
                                                        "thread_done"})
          \* no analysis call inside the inner gate
          /\ InAnalysis(r) => (holds[r] = {"outer"} /\ browser[r] = "none")
          \* the outer gate is given back when the request has ended
          /\ (result[r] # "none") <=> (pc[r] = "done")
          /\ (pc[r] = "done") => (holds[r] = {})

\* one request runs an analysis call with the outer permit alone while the
\* engine of another one, which has both permits, is open
C15_Witness ==
    \E r \in Reqs : \E q \in Reqs :
        /\ pc[r] = "aeo_call"
        /\ holds[r] = {"outer"}
        /\ browser[q] = "open"
        /\ holds[q] = {"outer", "inner"}

\* r has ended with a result or a failure and holds no gate
Ended(r) == pc[r] = "done" /\ result[r] # "none" /\ holds[r] = {}

\* C16: under fair scheduling every set of concurrent requests comes to the
\* state in which every request has ended, with a result or a failure and
\* with both gates given back and free, and a request ends only after it
\* has held the outer gate and then the inner gate for its capture: no
\* request is left waiting and no set of requests blocks itself.
C16_EveryRequestEnds ==
    /\ <>[](/\ \A r \in Reqs : Ended(r)
            /\ request_semaphore = Semaphore(MAX_CONCURRENT_REQUESTS)
            /\ playwright_semaphore = Semaphore(MAX_PLAYWRIGHT_SESSIONS))
    /\ [][\A r \in Reqs :
             (Ended(r)' /\ ~Ended(r)) =>
                 /\ "outer" \in holds[r]
                 /\ (pc[r] = "thread_done" /\ "inner" \in holds[r])
                        \/ (InAnalysis(r) /\ "inner" \notin holds[r])]_vars

\* every request has ended, the last of them after it had to wait
C16_Witness ==
    /\ \A r \in Reqs : pc[r] = "done" /\ result[r] # "none"
    /\ request_semaphore = Semaphore(MAX_CONCURRENT_REQUESTS)
    /\ playwright_semaphore = Semaphore(MAX_PLAYWRIGHT_SESSIONS)
    /\ result[NReq] = "response"

\* C17: the mobile pass reads and compares no DOM lengths: the
\* classification is made once, in the desktop pass, and the mobile scroll
\* runs exactly when that classification was dynamic, before the mobile
\* screenshot.
C17_MobileReusesClassification ==
    \A r \in Reqs :
        /\ Len(dom_lengths[r]) <= 2
        /\ \A i \in 1..Len(log[r]) : \A j \in (i + 1)..Len(log[r]) :
               /\ log[r][i] \in MobileSteps =>
                      log[r][j] \notin {"d_content", "d_detect"}
               /\ log[r][i] = "d_detect" => log[r][j] # "d_detect"
        /\ is_js_site[r] =>
               /\ Len(dom_lengths[r]) = 2
               /\ classify(dom_lengths[r][1], dom_lengths[r][2])
        /\ InLog(r, "m_scroll") =>
               /\ is_js_site[r]
               /\ Precedes(r, "d_detect", "m_scroll")
        /\ InLog(r, "m_shot") =>
               /\ InLog(r, "m_scroll") <=> is_js_site[r]
               /\ is_js_site[r] <=>
                      classify(dom_lengths[r][1], dom_lengths[r][2])
               /\ is_js_site[r] => Precedes(r, "m_scroll", "m_shot")
               /\ \A i \in 1..Len(log[r]) : \A j \in (i + 1)..Len(log[r]) :
                      log[r][i] = "m_shot" => log[r][j] # "m_scroll"

\* the mobile page of a capture classified dynamic was scrolled and then
\* photographed
C17_Witness ==
    \E r \in Reqs :
        /\ is_js_site[r]
        /\ InLog(r, "m_scroll")
        /\ InLog(r, "m_shot")
        /\ screenshots[r] = <<"desktop", "mobile">>

\* no occurrence of step b in the log of r has an occurrence of step a
\* after it
NeverAfter(r, a, b) ==
    \A i \in 1..Len(log[r]) : \A j \in (i + 1)..Len(log[r]) :
        log[r][i] = b => log[r][j] # a

\* C18: in the page preparation of each viewport the dismissal of banner 1
\* comes before that of banner 2, each runs at most once and only for a
\* banner that the request supplies, an absent banner being skipped while
\* the other one is still handled; both come after the navigation and the
\* readiness wait and before the screenshot of the viewport, and the mobile
\* page gets the same dismissals as the desktop page.
C18_BannersInCallerOrder ==
    \A r \in Reqs : \A vp \in Viewports :
        LET b1 == BannerStep(vp, 1)
            b2 == BannerStep(vp, 2)
            shot == Lbl(vp, "shot")
        IN  /\ \A k \in {1, 2} :
                   /\ InLog(r, BannerStep(vp, k)) => BannerOf(body[r], k)
                   /\ Precedes(r, Lbl(vp, "goto"), BannerStep(vp, k))
                   /\ Precedes(r, Lbl(vp, "ready"), BannerStep(vp, k))
                   /\ NeverAfter(r, BannerStep(vp, k), BannerStep(vp, k))
                   /\ NeverAfter(r, BannerStep(vp, k), shot)
                   /\ NeverAfter(r, Lbl(vp, "ready"), BannerStep(vp, k))
                   /\ InLog(r, shot) =>
                          (InLog(r, BannerStep(vp, k)) <=>
                               BannerOf(body[r], k))
                   /\ InLog(r, "m_shot") =>
                          (InLog(r, BannerStep("desktop", k)) <=>
                               InLog(r, BannerStep("mobile", k)))
            /\ NeverAfter(r, b1, b2)
            /\ (body[r].banner_1 /\ InLog(r, b2)) => Precedes(r, b1, b2)

\* a request with both banners had them dismissed on the desktop and on the
\* mobile page and both screenshots taken
C18_Witness ==
    \E r \in Reqs :
        /\ body[r] = [banner_1 |-> TRUE, banner_2 |-> TRUE]
        /\ \A vp \in Viewports : \A k \in {1, 2} :
               InLog(r, BannerStep(vp, k))
        /\ InLog(r, "m_shot")

\* the launch, the navigations and the readiness waits of a capture
StructuralCalls == {"launch", "d_goto", "d_ready", "m_goto", "m_ready"}

\* the Playwright call of r that raised: the last step before the exit of
\* the with block
FailedCall(r) ==
    IF exc[r] # "Error" \/ log[r] = <<>> THEN "none"
    ELSE IF pc[r] = "with_exit" THEN log[r][Len(log[r])]
    ELSE IF Len(log[r]) > 1 THEN log[r][Len(log[r]) - 1]
    ELSE "none"

\* C19: after a failed launch, navigation or readiness wait, on the desktop
\* or on the mobile page, the request takes no further capture step: it
\* leaves the with block, sets no cleaned content, and ends with exactly
\* one failure, the HTTP 500 error, and never with a response; a result,
\* once set, never changes.
C19_StructuralFailureAborts ==
    [][\A r \in Reqs :
          /\ (exc[r] = "Error" /\ FailedCall(r) \in StructuralCalls) =>
                 /\ pc[r] \in {"with_exit", "thread_done"}
                 /\ cleaned_html[r] = <<>>
                 /\ ~InLog(r, "extract")
                 /\ result[r] = "none"
                 /\ \/ /\ pc'[r] = pc[r]
                       /\ log'[r] = log[r]
                       /\ result'[r] = "none"
                    \/ /\ pc[r] = "with_exit"
                       /\ pc'[r] = "thread_done"
                       /\ log'[r] = Append(log[r], "with_exit")
                       /\ exc'[r] = "Error"
                       /\ browser'[r] = "none"
                       /\ screenshots'[r] = screenshots[r]
                       /\ cleaned_html'[r] = <<>>
                       /\ result'[r] = "none"
                    \/ /\ pc[r] = "thread_done"
                       /\ pc'[r] = "done"
                       /\ result'[r] = "HTTPException"
          /\ (result[r] # "none") =>
                 (result'[r] = result[r] /\ pc'[r] = "done")
      ]_vars

\* the navigation of the mobile page failed after the desktop screenshot
\* was taken, and the thread of the capture has ended
C19_Witness ==
    \E r \in Reqs :
        /\ pc[r] = "thread_done"
        /\ exc[r] = "Error"
        /\ FailedCall(r) = "m_goto"
        /\ screenshots[r] = <<"desktop">>
        /\ browser[r] = "none"

\* the analysis call that ask_gemini awaits before each of the others
CallBefore ==
    [mobile_call |-> "desktop_call", aeo_call |-> "mobile_call",
     geo_call |-> "aeo_call"]

\* C20: a request comes to its first analysis call only from a capture that
\* returned, with both screenshots and the extracted content, and never
\* after a failed capture; each further call starts in the step in which
\* the one before it returned; a call that fails ends the request with the
\* HTTP error, and the response is returned only when the fourth call has
\* returned.
C20_AnalysisAfterCapture ==
    [][\A r \in Reqs :
          /\ InAnalysis(r)' =>
                 /\ exc'[r] = "none"
                 /\ cleaned_html'[r] # <<>>
                 /\ screenshots'[r] = <<"desktop", "mobile">>
                 /\ browser'[r] = "none"
          /\ (pc'[r] = "desktop_call" /\ pc[r] # "desktop_call") =>
                 /\ pc[r] = "thread_done"
                 /\ exc[r] = "none"
                 /\ InLog(r, "extract")
                 /\ cleaned_html[r] # <<>>
          /\ (pc[r] = "thread_done" /\ exc[r] # "none"
                /\ pc'[r] # pc[r]) =>
                 (pc'[r] = "done" /\ result'[r] \in {"HTTPException",
                                                     "SystemExit"})
          /\ \A c \in DOMAIN CallBefore :
                 (pc'[r] = c /\ pc[r] # c) =>
                     (pc[r] = CallBefore[c] /\ result'[r] = "none")
          /\ (pc[r] \in {"desktop_call", "mobile_call", "aeo_call",
                         "geo_call"} /\ pc'[r] # pc[r]) =>
                 \/ /\ pc'[r] \in DOMAIN CallBefore
                    /\ CallBefore[pc'[r]] = pc[r]
                 \/ /\ pc'[r] = "done"
                    /\ result'[r] = "HTTPException"
                 \/ /\ pc[r] = "geo_call"
                    /\ pc'[r] = "done"
                    /\ result'[r] = "response"
          /\ (result'[r] = "response" /\ result[r] # "response") =>
                 pc[r] = "geo_call"
      ]_vars

\* after a capture that returned, three analysis calls have returned and
\* the fourth is awaited
C20_Witness ==
    \E r \in Reqs :
        /\ pc[r] = "geo_call"
        /\ cleaned_html[r] = <<EmptyString>>
        /\ screenshots[r] = <<"desktop", "mobile">>
        /\ result[r] = "none"

====
